---------------------------- MODULE Spec2Model ----------------------------
(***************************************************************************)
(* MPI_reduce_ICESat2_ATL03_grounding_zone.py: every rank of an MPI job    *)
(* runs main(): rank 0 loads the buffered grounding-zone polygons and      *)
(* broadcasts them, every rank tests its stride of each beam's photons     *)
(* against the polygons, the partial masks are combined with a logical-OR  *)
(* Allreduce, and rank 0 writes the masks with HDF5_ATL03_mask_write.      *)
(*                                                                         *)
(* numpy arrays are functions on 0..n-1.  A photon's projected position is *)
(* kept as the cell of the plane it falls in, and a polygon as the set of  *)
(* cells it intersects (boundary included, as shapely's intersects).       *)
(* Every rank reads the beams from the path FILE: h_ph is what each rank   *)
(* finds there.  In Spec all ranks find the same file; in SpecSkew a rank  *)
(* may find a beam shorter than another rank does (the path does not name  *)
(* the same copy of the file on every node).  SpecNames runs the job on    *)
(* input paths of several shapes, SpecWriter runs the writer alone.        *)
(*                                                                         *)
(* DEM/scp_pgc_dem_strips.py, a second program, uploads strip files to a   *)
(* remote host; SpecPush runs it alone, the job above being idle.          *)
(***************************************************************************)
EXTENDS Integers, Sequences, FiniteSets

VARIABLES
    bound,            \* the names among UnboundNames that resolve when main runs
    readable,         \* whether fiona can open the buffered shapefile
    h_ph,             \* rank -> (beam -> the h_ph.shape the rank reads)
    FILE,             \* the path of the input file, a string of characters
    DIRECTORY,        \* os.path.dirname(FILE)
    found,            \* rx.findall(FILE): the tokens of the name, if it matches
    HEM,              \* rank -> None | Some(hemisphere flag of the granule)
    size,             \* comm.size
    beams,            \* sorted(IS2_atl03_beams): the gt?? groups of the input
    n_pe,             \* beam -> number of photon events (h_ph.shape)
    XY,               \* beam -> array of cells: the projected lon_ph/lat_ph
    pc,               \* rank -> position in main / the writer
    err,              \* rank -> the exception that ended the rank, "" if none
    gtx,              \* rank -> position of the loop variable gtx in beams, 0 before
    mpoly_obj,        \* rank -> None | Some(polygon list)
    epsg,             \* rank -> None | Some(projection)
    bcasts,           \* number of broadcasts the root has sent
    ind,              \* rank -> None | Some(index array of the rank)
    distributed_map,  \* rank -> None | Some(boolean array)
    associated_map,   \* rank -> None | Some(boolean array)
    IS2_atl03_mask,   \* rank -> (beam -> record of arrays) for the beams assembled
    sent,             \* rank -> the send buffers it has passed to Allreduce, in order
    arrived,          \* rank -> number of Barrier calls it has entered
    wargs,            \* None | Some(arguments of the running writer call)
    outfile,          \* the output path: NoFile or the HDF5 file there
    opens,            \* log of the opens of the output path for writing
    REMOTE,           \* uploader: --remote, the remote working directory
    LIST,             \* uploader: --list
    clobber,          \* uploader: --clobber
    RETRY,            \* uploader: --retry
    local,            \* uploader: strip -> size and mtime of the local file
    file_list,        \* uploader: sorted(file_list)
    remote0,          \* uploader: the remote host before the run
    remote,           \* uploader: the remote host
    fi,               \* uploader: position of the loop variable fi in file_list
    at,               \* uploader: position in scp_pgc_dem_strips
    failure,          \* uploader: the exception that ended it, "" if none
    retry_counter,    \* uploader: retry_counter of retry_scp_push
    ops               \* uploader: log of the mkdir, put and chmod on the host

\* what the job is started on; no step of a rank changes it
input == <<bound, readable, h_ph, FILE, DIRECTORY, found, size, beams, n_pe, XY>>

\* the state of the job that builds the mask
job == <<bound, readable, h_ph, FILE, DIRECTORY, found, HEM, size, beams, n_pe, XY, pc, err,
         gtx, mpoly_obj, epsg, bcasts, ind, distributed_map, associated_map,
         IS2_atl03_mask, sent, arrived, wargs, outfile, opens>>

\* what the uploader is started on; no step changes it
options == <<REMOTE, LIST, clobber, RETRY, local, file_list, remote0>>

\* the state of the uploader
push == <<options, remote, fi, at, failure, retry_counter, ops>>

vars == <<job, REMOTE, LIST, clobber, RETRY, local, file_list, remote0,
          remote, fi, at, failure, retry_counter, ops>>

(***************************************************************************)
(* Bounds of the model.                                                    *)
(***************************************************************************)
\* largest number of photon events of a beam
MaxN == 2
\* largest number of MPI ranks
MaxW == 2

(***************************************************************************)
(* Values.                                                                 *)
(***************************************************************************)
None == << >>
Some(x) == <<x>>
Get(o) == o[1]

Ranks == 0 .. (size - 1)

\* the input's beams: what sorted() yields for the gt?? keys present
BeamLists == { << >>, <<"gt1l">>, <<"gt1l", "gt3r">> }

\* cells of the projected plane, by the polygons of the shapefile covering them
Cells == {"A", "B", "O"}

\* lon_ph and lat_ph of a photon that the projection puts in each cell
Lon == [A |-> 1, B |-> 2, O |-> 3]
Lat == [A |-> 2, B |-> 1, O |-> 3]

\* the polygons load_grounding_zone builds from the buffered shapefile
Shapefile == << {"A"}, {"A", "B"} >>

Zeros(n) == [i \in 0 .. (n - 1) |-> FALSE]
AnyTrue(a) == \E i \in DOMAIN a : a[i]
Range(a) == {a[i] : i \in DOMAIN a}

\* Names main calls that no import or def of the module binds: line 246
\* calls MultiPoint (the module imports shapely.geometry only) and line 357
\* calls HDF5_ATL06_mask_write (the writer is defined as
\* HDF5_ATL03_mask_write).  A call of a name that does not resolve raises
\* NameError.  `bound' is the set of these names that resolve in a run: in
\* the module as it stands none does (bound = {}); the other runs are those
\* of the module with the name in place, which reach the code behind the
\* call.
UnboundNames == {"MultiPoint", "HDF5_ATL06_mask_write"}

\* f with key k bound to v (a dict assignment f[k] = v)
Extend(f, k, v) == [x \in (DOMAIN f) \cup {k} |-> IF x = k THEN v ELSE f[x]]

\* the output path holds no file
NoFile == [exists |-> FALSE, closed |-> TRUE, data |-> << >>, dims |-> << >>,
           input_files |-> None, attrs |-> None, chmod |-> FALSE]
\* a file left at the output path by an earlier run
OldFile == [exists |-> TRUE, closed |-> TRUE, data |-> << >>, dims |-> << >>,
            input_files |-> None, attrs |-> None, chmod |-> TRUE]
\* a file just created or truncated by h5py.File
NewFile == [exists |-> TRUE, closed |-> FALSE, data |-> << >>, dims |-> << >>,
            input_files |-> None, attrs |-> None, chmod |-> FALSE]

(***************************************************************************)
(* File names.  A Python str is the sequence of its characters.            *)
(***************************************************************************)
Digits == {"0", "1", "2", "3", "4", "5", "6", "7", "8", "9"}

IsDigits(s) == \A i \in DOMAIN s : s[i] \in Digits

\* s[i:], from the 1-based position i
From(s, i) == SubSeq(s, i, Len(s))

\* the position of the last "/" of p, 0 when it has none (p.rfind('/') + 1)
LastSep(p) ==
    IF \E i \in DOMAIN p : p[i] = "/"
    THEN CHOOSE i \in DOMAIN p :
             p[i] = "/" /\ \A j \in DOMAIN p : p[j] = "/" => j <= i
    ELSE 0

\* head.rstrip('/')
RECURSIVE RStrip(_)
RStrip(p) ==
    IF p # << >> /\ p[Len(p)] = "/" THEN RStrip(SubSeq(p, 1, Len(p) - 1))
    ELSE p

\* os.path.basename(p)
Basename(p) == From(p, LastSep(p) + 1)

\* os.path.dirname(p): the head, without its trailing slashes unless it
\* is made of slashes only
Dirname(p) ==
    LET head == SubSeq(p, 1, LastSep(p))
    IN  IF head # << >> /\ \E i \in DOMAIN head : head[i] # "/"
        THEN RStrip(head) ELSE head

\* os.path.join(a, b)
PathJoin(a, b) ==
    IF b # << >> /\ b[1] = "/" THEN b
    ELSE IF a = << >> \/ a[Len(a)] = "/" THEN a \o b
    ELSE a \o <<"/">> \o b

\* the literal 'processed_' of the pattern
processed_ == <<"p", "r", "o", "c", "e", "s", "s", "e", "d", "_">>

\* (ATL\d{2})_(\d{4})(\d{2})(\d{2})(\d{2})(\d{2})(\d{2})_(\d{4})(\d{2})(\d{2})
\* _(\d{3})_(\d{2})(.*?).h5$ matches s from position p to its end
Fixed(s, p) ==
    /\ p >= 1
    /\ p + 38 <= Len(s)
    /\ SubSeq(s, p, p + 2) = <<"A", "T", "L">>
    /\ IsDigits(SubSeq(s, p + 3, p + 4))
    /\ s[p + 5] = "_"
    /\ IsDigits(SubSeq(s, p + 6, p + 19))
    /\ s[p + 20] = "_"
    /\ IsDigits(SubSeq(s, p + 21, p + 28))
    /\ s[p + 29] = "_"
    /\ IsDigits(SubSeq(s, p + 30, p + 32))
    /\ s[p + 33] = "_"
    /\ IsDigits(SubSeq(s, p + 34, p + 35))
    /\ SubSeq(s, Len(s) - 1, Len(s)) = <<"h", "5">>

\* (processed_)? matches at position i
HasSub(s, i) == i + 9 <= Len(s) /\ SubSeq(s, i, i + 9) = processed_

\* the position of the product of a match that starts at i, 0 for no match
MatchAt(s, i) ==
    IF HasSub(s, i) /\ Fixed(s, i + 10) THEN i + 10
    ELSE IF Fixed(s, i) THEN i
    ELSE 0

\* the groups of the match whose product is at position p
Groups(s, i, p) ==
    [SUB |-> SubSeq(s, i, p - 1),
     PRD |-> SubSeq(s, p, p + 4),
     YY |-> SubSeq(s, p + 6, p + 9),
     MM |-> SubSeq(s, p + 10, p + 11),
     DD |-> SubSeq(s, p + 12, p + 13),
     HH |-> SubSeq(s, p + 14, p + 15),
     MN |-> SubSeq(s, p + 16, p + 17),
     SS |-> SubSeq(s, p + 18, p + 19),
     TRK |-> SubSeq(s, p + 21, p + 24),
     CYCL |-> SubSeq(s, p + 25, p + 26),
     GRAN |-> SubSeq(s, p + 27, p + 28),
     RL |-> SubSeq(s, p + 30, p + 32),
     VERS |-> SubSeq(s, p + 34, p + 35),
     AUX |-> SubSeq(s, p + 36, Len(s) - 3)]

\* the first position from i on at which a match starts, 0 if there is none
RECURSIVE Search(_, _)
Search(s, i) ==
    IF i > Len(s) THEN 0
    ELSE IF MatchAt(s, i) # 0 THEN i
    ELSE Search(s, i + 1)

\* rx.findall(FILE): the pattern ends at the end of the string, so the
\* leftmost match is the only one
findall(s) ==
    LET i == Search(s, 1)
    IN  IF i = 0 THEN << >> ELSE <<Groups(s, i, MatchAt(s, i))>>

GROUNDING_ZONE_MASK ==
    <<"G", "R", "O", "U", "N", "D", "I", "N", "G", "_", "Z", "O", "N", "E",
      "_", "M", "A", "S", "K">>

\* variant of file_format: the name rebuilt from the tokens alone
file_format_plain(t) ==
    t.PRD \o <<"_">> \o t.YY \o t.MM \o t.DD \o t.HH \o t.MN \o t.SS
        \o <<"_">> \o t.TRK \o t.CYCL \o t.GRAN \o <<"_">> \o t.RL
        \o <<"_">> \o t.VERS \o t.AUX \o <<".", "h", "5">>

\* '{0}_{1}_{2}{3}{4}{5}{6}{7}_{8}{9}{10}_{11}_{12}{13}.h5'.format(*args)
\* with args = (PRD,'GROUNDING_ZONE_MASK',YY,MM,DD,HH,MN,SS,TRK,CYCL,GRAN,
\* RL,VERS,AUX)
file_format(t) ==
    t.PRD \o <<"_">> \o GROUNDING_ZONE_MASK \o <<"_">>
        \o t.YY \o t.MM \o t.DD \o t.HH \o t.MN \o t.SS
        \o <<"_">> \o t.TRK \o t.CYCL \o t.GRAN \o <<"_">> \o t.RL
        \o <<"_">> \o t.VERS \o t.AUX \o <<".", "h", "5">>

\* variant of set_hemisphere: a granule of no hemisphere is taken as south
set_hemisphere_south(GRANULE) ==
    IF GRANULE \in {<<"0", "3">>, <<"0", "4">>, <<"0", "5">>} THEN Some("N")
    ELSE Some("S")

\* set_hemisphere(GRANULE): the flag, or None where projection_flag is
\* never assigned and the return raises UnboundLocalError
set_hemisphere(GRANULE) ==
    IF GRANULE \in {<<"1", "0">>, <<"1", "1">>, <<"1", "2">>} THEN Some("S")
    ELSE IF GRANULE \in {<<"0", "3">>, <<"0", "4">>, <<"0", "5">>}
    THEN Some("N")
    ELSE None

\* a str and a list as arguments of a call
Str(s) == [type |-> "str", v |-> s]
List(l) == [type |-> "list", v |-> l]

\* for i in x: the characters of a str, the elements of a list
Iterate(x) ==
    IF x.type = "str" THEN [i \in DOMAIN x.v |-> <<x.v[i]>>] ELSE x.v

\* sep.join(items), from item k on
RECURSIVE JoinFrom(_, _, _)
JoinFrom(sep, items, k) ==
    IF k > Len(items) THEN << >>
    ELSE IF k = Len(items) THEN items[k]
    ELSE items[k] \o sep \o JoinFrom(sep, items, k + 1)

\* ','.join([os.path.basename(i) for i in INPUT])
input_files(INPUT) ==
    LET it == Iterate(INPUT)
    IN  JoinFrom(<<",">>, [i \in DOMAIN it |-> Basename(it[i])], 1)

\* input file names: product ATL03, a date, a track with its cycle and
\* granule, a release and a version
NameOf(sub, gran, aux) ==
    sub \o <<"A", "T", "L", "0", "3", "_">>
        \o <<"2", "0", "1", "8", "1", "0", "1", "4", "0", "0", "0", "0",
             "0", "0", "_">>
        \o <<"0", "0", "0", "1", "0", "1">> \o gran
        \o <<"_", "0", "0", "1", "_", "0", "1">> \o aux \o <<".", "h", "5">>

\* the input file of a job
InputFile == <<"d", "/">> \o NameOf(<< >>, <<"1", "0">>, << >>)

\* paths a job may be started on: granules of both hemispheres and of
\* neither, with and without a directory, the processed_ prefix and a
\* suffix, a name the pattern matches from within a directory name, and a
\* name it does not match
FileNames ==
    {InputFile,
     NameOf(<< >>, <<"1", "1">>, << >>),
     NameOf(processed_, <<"0", "3">>, <<"_", "a">>),
     <<"/">> \o NameOf(<< >>, <<"0", "5">>, << >>),
     NameOf(<<"x">>, <<"1", "2">>, <<"/", "y">>),
     NameOf(<< >>, <<"0", "1">>, << >>),
     <<"d", "/">> \o NameOf(processed_, <<"0", "8">>, << >>),
     <<"x", ".", "h", "5">>}

(***************************************************************************)
(* Partitioner and mask evaluator (main, the body of the beam loop).       *)
(***************************************************************************)
\* variant of Arange: the length rounded down, so a last partial stride
\* is dropped
ArangeFloor(start, stop, step) ==
    LET len == IF stop > start THEN (stop - start) \div step ELSE 0
    IN  [j \in 0 .. (len - 1) |-> start + j * step]

\* np.arange(start, stop, step) for step > 0
Arange(start, stop, step) ==
    LET len == IF stop > start THEN (stop - start + step - 1) \div step ELSE 0
    IN  [j \in 0 .. (len - 1) |-> start + j * step]

\* fileID[gtx]['heights']['delta_time'][:], one ordinal time per photon
delta_time(b) == [i \in 0 .. (n_pe[b] - 1) |-> i]

\* fileID[gtx]['heights']['lon_ph'][:] and ['lat_ph'][:]
longitude(b) == [i \in DOMAIN XY[b] |-> Lon[XY[b][i]]]
latitude(b) == [i \in DOMAIN XY[b] |-> Lat[XY[b][i]]]

\* a dataset of beam b as rank r reads it: the photons the rank finds
View(r, b, a) == [i \in 0 .. (h_ph[r][b] - 1) |-> a[i]]

\* the points (X[ind], Y[ind]) of a rank
xy_point(b, idx) == [j \in DOMAIN idx |-> XY[b][idx[j]]]

\* poly_obj.intersects(point)
Intersects(poly_obj, point) == point \in poly_obj

\* poly_obj.intersects(xy_point)
int_test(poly_obj, points) ==
    \E j \in DOMAIN points : Intersects(poly_obj, points[j])

\* list(map(poly_obj.intersects, xy_point))
int_map(poly_obj, points) ==
    [j \in DOMAIN points |-> Intersects(poly_obj, points[j])]

\* np.nonzero(int_map)
Nonzero(m) == {j \in DOMAIN m : m[j]}

\* variant of SetTrue: distributed_map[int_indices] = True, the positions
\* within the partition taken for photon indices
SetTrueLocal(map, idx, int_indices) ==
    [i \in DOMAIN map |-> map[i] \/ i \in int_indices]

\* distributed_map[ind[int_indices]] = True
SetTrue(map, idx, int_indices) ==
    [i \in DOMAIN map |-> map[i] \/ (\E j \in int_indices : idx[j] = i)]

\* for poly_obj in mpoly_obj: ..., from polygon k on
RECURSIVE PolygonLoop(_, _, _, _, _)
PolygonLoop(mpoly, k, points, idx, map) ==
    IF k > Len(mpoly) THEN map
    ELSE IF int_test(mpoly[k], points)
         THEN PolygonLoop(mpoly, k + 1, points, idx,
                  SetTrue(map, idx, Nonzero(int_map(mpoly[k], points))))
         ELSE PolygonLoop(mpoly, k + 1, points, idx, map)

(***************************************************************************)
(* Collectives of the communicator.                                        *)
(***************************************************************************)
\* what rank s passed to the k-th Allreduce; a buffer not yet passed
\* contributes nothing
Contribution(s, k, n) == IF k <= Len(sent[s]) THEN sent[s][k] ELSE Zeros(n)

\* variant of LOR: the reduction with MPI.LAND
LAND(s, k, n) ==
    [i \in 0 .. (n - 1) |->
        \A t \in s .. (size - 1) :
            LET a == Contribution(t, k, n) IN i \in DOMAIN a /\ a[i]]

\* MPI.LOR over the send buffers of ranks s .. size-1, onto a receive
\* buffer of n elements
RECURSIVE LOR(_, _, _)
LOR(s, k, n) ==
    IF s > size - 1 THEN Zeros(n)
    ELSE LET a == Contribution(s, k, n)
             rest == LOR(s + 1, k, n)
         IN  [i \in 0 .. (n - 1) |-> (i \in DOMAIN a /\ a[i]) \/ rest[i]]

\* variant of AllreduceReady: the call returns without the other ranks
AllreduceNoWait(r) == TRUE

\* comm.Allreduce returns on rank r once every rank has entered it
AllreduceReady(r) == \A s \in Ranks : Len(sent[s]) >= Len(sent[r])

\* variant of BarrierReady: the call returns without the other ranks
BarrierNoWait(r) == TRUE

\* comm.Barrier returns on rank r once every rank has entered it
BarrierReady(r) == \A s \in Ranks : arrived[s] >= arrived[r]

\* variant of BcastReady: no rank is the root of the call, every rank
\* waits to receive
BcastNoRoot(r, k) == bcasts >= k

\* comm.bcast(obj, root=0) returns on rank r: the root at once, another
\* rank once the root has sent its k-th broadcast
BcastReady(r, k) == r = 0 \/ bcasts >= k

(***************************************************************************)
(* main, one rank at a time.                                               *)
(***************************************************************************)
\* variant of IsWriter: the test of the rank left out
AnyRankWrites(r) == TRUE

\* the rank that writes the output (comm.rank == 0)
IsWriter(r) == r = 0

\* IS2_atl03_mask[gtx] = dict(heights={},subsetting={})
NewBeam(mask, b) ==
    Extend(mask, b, [delta_time |-> None, latitude |-> None,
                     longitude |-> None, ice_gz |-> None])

\* variant of StoreBeam: the record started anew for each beam
StoreOnlyBeam(mask, b, dt, lat, lon, map) ==
    [x \in {b} |-> [delta_time |-> Some(dt), latitude |-> Some(lat),
                    longitude |-> Some(lon), ice_gz |-> Some(map)]]

\* variant of StoreBeam: latitude and longitude stored under each other's key
StoreSwapped(mask, b, dt, lat, lon, map) ==
    Extend(mask, b, [delta_time |-> Some(dt), latitude |-> Some(lon),
                     longitude |-> Some(lat), ice_gz |-> Some(map)])

\* IS2_atl03_mask[gtx]['heights']['delta_time'] = delta_time, the same for
\* latitude and longitude, and
\* IS2_atl03_mask[gtx]['subsetting']['ice_gz'] = associated_map
StoreBeam(mask, b, dt, lat, lon, map) ==
    Extend(mask, b, [delta_time |-> Some(dt), latitude |-> Some(lat),
                     longitude |-> Some(lon), ice_gz |-> Some(map)])

\* rank r is at position l of its run
At(r, l) == r \in Ranks /\ pc[r] = l

Raise(r, e) ==
    /\ pc' = [pc EXCEPT ![r] = "error"]
    /\ err' = [err EXCEPT ![r] = e]

Goto(r, l) ==
    /\ pc' = [pc EXCEPT ![r] = l]
    /\ err' = err

\* open the input, parse its name, list its beams; rank 0 loads the polygons
\* (rx.findall(FILE).pop() raises on a name the pattern does not match,
\* set_hemisphere on a granule of no hemisphere, and fiona.open when it
\* cannot open the shapefile)
ReadInput(r) ==
    /\ At(r, "start")
    /\ LET flag == IF found = << >> THEN None
                  ELSE set_hemisphere(found[1].GRAN)
       IN  /\ HEM' = [HEM EXCEPT ![r] = flag]
           /\ IF found = << >>
              THEN /\ Raise(r, "IndexError: pop from empty list")
                   /\ UNCHANGED <<mpoly_obj, epsg>>
              ELSE IF flag = None
              THEN /\ Raise(r, "UnboundLocalError: projection_flag")
                   /\ UNCHANGED <<mpoly_obj, epsg>>
              ELSE IF r = 0 /\ ~readable
              THEN /\ Raise(r, "DriverError: shapefile")
                   /\ UNCHANGED <<mpoly_obj, epsg>>
              ELSE /\ mpoly_obj' = [mpoly_obj EXCEPT ![r] =
                                      IF r = 0 THEN Some(Shapefile) ELSE None]
                   /\ epsg' = [epsg EXCEPT ![r] =
                                 IF r = 0 THEN Some("epsg") ELSE None]
                   /\ Goto(r, "bcast_mpoly")
    /\ UNCHANGED <<push, input, gtx, bcasts, ind,
                   distributed_map, associated_map, IS2_atl03_mask, sent,
                   arrived, wargs, outfile, opens>>

\* mpoly_obj = comm.bcast(mpoly_obj, root=0)
BcastMpoly(r) ==
    /\ At(r, "bcast_mpoly")
    /\ BcastReady(r, 1)
    /\ bcasts' = IF r = 0 THEN 1 ELSE bcasts
    /\ mpoly_obj' = [mpoly_obj EXCEPT ![r] = mpoly_obj[0]]
    /\ Goto(r, "bcast_epsg")
    /\ UNCHANGED <<push, input, HEM, gtx, epsg, ind,
                   distributed_map, associated_map, IS2_atl03_mask, sent,
                   arrived, wargs, outfile, opens>>

\* epsg = comm.bcast(epsg, root=0), then the dictionaries of the output
BcastEpsg(r) ==
    /\ At(r, "bcast_epsg")
    /\ BcastReady(r, 2)
    /\ bcasts' = IF r = 0 THEN 2 ELSE bcasts
    /\ epsg' = [epsg EXCEPT ![r] = epsg[0]]
    /\ Goto(r, "beam")
    /\ UNCHANGED <<push, input, HEM, gtx, mpoly_obj, ind,
                   distributed_map, associated_map, IS2_atl03_mask, sent,
                   arrived, wargs, outfile, opens>>

\* the next beam: its indices, its points, and the polygon loop
Evaluate(r) ==
    /\ At(r, "beam")
    /\ gtx[r] < Len(beams)
    /\ LET k == gtx[r] + 1
           b == beams[k]
           n == h_ph[r][b]
           idx == Arange(r, n, size)
       IN  /\ gtx' = [gtx EXCEPT ![r] = k]
           /\ IS2_atl03_mask' = [IS2_atl03_mask EXCEPT ![r] = NewBeam(@, b)]
           /\ ind' = [ind EXCEPT ![r] = Some(idx)]
           /\ IF "MultiPoint" \in bound
              THEN /\ distributed_map' = [distributed_map EXCEPT ![r] =
                          Some(PolygonLoop(Get(mpoly_obj[r]), 1,
                                   xy_point(b, idx), idx, Zeros(n)))]
                   /\ associated_map' = [associated_map EXCEPT ![r] =
                          Some(Zeros(n))]
                   /\ Goto(r, "allreduce")
              ELSE /\ Raise(r, "NameError: MultiPoint")
                   /\ UNCHANGED <<distributed_map, associated_map>>
    /\ UNCHANGED <<push, input, HEM, mpoly_obj, epsg, bcasts,
                   sent, arrived, wargs, outfile, opens>>

\* comm.Allreduce(sendbuf=distributed_map, ...): the rank enters
AllreduceSend(r) ==
    /\ At(r, "allreduce")
    /\ sent' = [sent EXCEPT ![r] = Append(@, Get(distributed_map[r]))]
    /\ Goto(r, "allreduce_wait")
    /\ UNCHANGED <<push, input, HEM, gtx, mpoly_obj, epsg, bcasts,
                   ind, distributed_map, associated_map, IS2_atl03_mask,
                   arrived, wargs, outfile, opens>>

\* the ranks passed buffers of the same count to the k-th Allreduce
SameCount(k) ==
    \A s, t \in Ranks :
        k <= Len(sent[s]) /\ k <= Len(sent[t])
            => DOMAIN sent[s][k] = DOMAIN sent[t][k]

\* comm.Allreduce(..., recvbuf=associated_map, op=MPI.LOR) returns;
\* distributed_map = None.  With counts that differ between the ranks MPI
\* leaves the call undefined: it may reduce what each rank has, or fail
\* with a truncation error (or never return, when no step is taken).
AllreduceRecv(r) ==
    /\ At(r, "allreduce_wait")
    /\ AllreduceReady(r)
    /\ \/ /\ associated_map' = [associated_map EXCEPT ![r] =
                 Some(LOR(0, Len(sent[r]), Cardinality(DOMAIN Get(@))))]
          /\ distributed_map' = [distributed_map EXCEPT ![r] = None]
          /\ Goto(r, "barrier1")
       \/ /\ ~SameCount(Len(sent[r]))
          /\ Raise(r, "MPI_ERR_TRUNCATE")
          /\ UNCHANGED <<associated_map, distributed_map>>
    /\ UNCHANGED <<push, input, HEM, gtx, mpoly_obj, epsg, bcasts,
                   ind, IS2_atl03_mask, sent, arrived, wargs, outfile, opens>>

\* comm.Barrier(): the rank enters (after the reduction, and after the
\* beam's record)
BarrierArrive(r) ==
    /\ r \in Ranks
    /\ pc[r] \in {"barrier1", "barrier2"}
    /\ arrived' = [arrived EXCEPT ![r] = @ + 1]
    /\ Goto(r, IF pc[r] = "barrier1" THEN "barrier1_wait" ELSE "barrier2_wait")
    /\ UNCHANGED <<push, input, HEM, gtx, mpoly_obj, epsg, bcasts,
                   ind, distributed_map, associated_map, IS2_atl03_mask, sent,
                   wargs, outfile, opens>>

\* comm.Barrier() returns
BarrierLeave(r) ==
    /\ r \in Ranks
    /\ pc[r] \in {"barrier1_wait", "barrier2_wait"}
    /\ BarrierReady(r)
    /\ Goto(r, IF pc[r] = "barrier1_wait" THEN "assemble" ELSE "beam")
    /\ UNCHANGED <<push, input, HEM, gtx, mpoly_obj, epsg, bcasts,
                   ind, distributed_map, associated_map, IS2_atl03_mask, sent,
                   arrived, wargs, outfile, opens>>

\* the beam's attributes, its geolocation and time, and its mask
Assemble(r) ==
    /\ At(r, "assemble")
    /\ LET b == beams[gtx[r]]
       IN  IS2_atl03_mask' = [IS2_atl03_mask EXCEPT ![r] =
               StoreBeam(@, b, View(r, b, delta_time(b)),
                         View(r, b, latitude(b)), View(r, b, longitude(b)),
                         Get(associated_map[r]))]
    /\ Goto(r, "barrier2")
    /\ UNCHANGED <<push, input, HEM, gtx, mpoly_obj, epsg, bcasts,
                   ind, distributed_map, associated_map, sent, arrived, wargs,
                   outfile, opens>>

\* if (comm.rank == 0) and associated_map.any(): HDF5_ATL06_mask_write(...)
WriteTest(r) ==
    /\ At(r, "beam")
    /\ gtx[r] = Len(beams)
    /\ IF ~IsWriter(r)
       THEN Goto(r, "close") /\ wargs' = wargs
       ELSE IF associated_map[r] = None
       THEN Raise(r, "NameError: associated_map") /\ wargs' = wargs
       ELSE IF ~AnyTrue(Get(associated_map[r]))
       THEN Goto(r, "close") /\ wargs' = wargs
       ELSE IF "HDF5_ATL06_mask_write" \notin bound
       THEN Raise(r, "NameError: HDF5_ATL06_mask_write") /\ wargs' = wargs
       ELSE /\ Goto(r, "w_open")
            /\ wargs' = [wargs EXCEPT ![r] =
                   Some([IS2_atl03_mask |-> IS2_atl03_mask[r],
                         CLOBBER |-> "Y",
                         INPUT |-> Str(Basename(FILE)),
                         FILENAME |-> PathJoin(DIRECTORY,
                                         file_format(found[1]))])]
    /\ UNCHANGED <<push, input, HEM, gtx, mpoly_obj, epsg, bcasts,
                   ind, distributed_map, associated_map, IS2_atl03_mask, sent,
                   arrived, outfile, opens>>

\* os.chmod(output, MODE)
Chmod(r) ==
    /\ At(r, "chmod")
    /\ outfile' = [outfile EXCEPT !.chmod = TRUE]
    /\ Goto(r, "close")
    /\ UNCHANGED <<push, input, HEM, gtx, mpoly_obj, epsg, bcasts,
                   ind, distributed_map, associated_map, IS2_atl03_mask, sent,
                   arrived, wargs, opens>>

\* fileID.close()
Close(r) ==
    /\ At(r, "close")
    /\ Goto(r, "done")
    /\ UNCHANGED <<push, input, HEM, gtx, mpoly_obj, epsg, bcasts,
                   ind, distributed_map, associated_map, IS2_atl03_mask, sent,
                   arrived, wargs, outfile, opens>>

(***************************************************************************)
(* HDF5_ATL03_mask_write, run by the rank that called it.  A file is its   *)
(* datasets (path -> array), the dimension scale attached to dimension 0   *)
(* of a dataset (path -> path of the scale) and the extents among its      *)
(* attributes.                                                             *)
(***************************************************************************)
\* variant of ClobberMode: the file always opened with 'w'
AlwaysOverwrite(CLOBBER) == "w"

\* clobber = 'w' if CLOBBER in ('Y','y') else 'w-'
ClobberMode(CLOBBER) == IF CLOBBER \in {"Y", "y"} THEN "w" ELSE "w-"

\* h5py.File(name, mode) on the output path: 'w' creates or truncates,
\* 'w-' creates and fails when the path exists
H5Open(file, mode) ==
    IF mode = "w-" /\ file.exists
    THEN [ok |-> FALSE, file |-> file]
    ELSE [ok |-> TRUE, file |-> NewFile]

\* beams = [k for k in IS2_atl03_mask.keys() if re.match(r'gt\d[lr]',k)]
WriterBeams(mask) == SelectSeq(beams, LAMBDA b : b \in DOMAIN mask)

\* the path at which the writer creates the dataset it keeps as
\* h5[gtx]['heights']['delta_time']: val = '<gtx>/heights/segment_id'
ScalePath(b) == <<b, "heights", "segment_id">>

\* the datasets created for the beams of the record, each with data=v
Datasets(mask) ==
    [path \in UNION {{ScalePath(b), <<b, "heights", "latitude">>,
                      <<b, "heights", "longitude">>,
                      <<b, "subsetting", "ice_gz">>} : b \in DOMAIN mask} |->
        LET rec == mask[path[1]]
        IN  IF path = ScalePath(path[1]) THEN Get(rec.delta_time)
            ELSE IF path[3] = "latitude" THEN Get(rec.latitude)
            ELSE IF path[3] = "longitude" THEN Get(rec.longitude)
            ELSE Get(rec.ice_gz)]

\* dims.create_scale(h5[gtx]['heights']['delta_time'], 'delta_time') and
\* dims[0].attach_scale(...) for latitude, longitude and the mask: the
\* scale is attached whatever the two shapes are
Scales(mask) ==
    [path \in UNION {{<<b, "heights", "latitude">>,
                      <<b, "heights", "longitude">>,
                      <<b, "subsetting", "ice_gz">>} : b \in DOMAIN mask} |->
        ScalePath(path[1])]

\* a.min() and a.max() of a numpy array that is not empty
ArrMin(a) == CHOOSE x \in Range(a) : \A y \in Range(a) : x <= y
ArrMax(a) == CHOOSE x \in Range(a) : \A y \in Range(a) : x >= y

\* variant of Lower: the value of the beam at hand always taken
LowerLast(x, acc) == Some(x)

\* x if (x < acc) else acc, where acc is None while it is np.inf
Lower(x, acc) == IF acc = None \/ x < Get(acc) THEN Some(x) ELSE acc

\* x if (x > acc) else acc, where acc is None while it is -np.inf
Higher(x, acc) == IF acc = None \/ x > Get(acc) THEN Some(x) ELSE acc

\* lnmn,lnmx,ltmn,ltmx,tmn,tmx = (np.inf,-np.inf,np.inf,-np.inf,np.inf,-np.inf)
NoRanges == [lnmn |-> None, lnmx |-> None, ltmn |-> None, ltmx |-> None,
             tmn |-> None, tmx |-> None]

\* for gtx in beams: the geospatial and temporal ranges, from beam k on
RECURSIVE Ranges(_, _, _, _)
Ranges(mask, bs, k, acc) ==
    IF k > Len(bs) THEN acc
    ELSE LET lon == Get(mask[bs[k]].longitude)
             lat == Get(mask[bs[k]].latitude)
             dt == Get(mask[bs[k]].delta_time)
         IN  Ranges(mask, bs, k + 1,
                 [lnmn |-> Lower(ArrMin(lon), acc.lnmn),
                  lnmx |-> Higher(ArrMax(lon), acc.lnmx),
                  ltmn |-> Lower(ArrMin(lat), acc.ltmn),
                  ltmx |-> Higher(ArrMax(lat), acc.ltmx),
                  tmn |-> Lower(ArrMin(dt), acc.tmn),
                  tmx |-> Higher(ArrMax(dt), acc.tmx)])

\* min() and max() of an empty array raise ValueError
RangesDefined(mask) ==
    \A b \in DOMAIN mask :
        /\ DOMAIN Get(mask[b].longitude) # {}
        /\ DOMAIN Get(mask[b].latitude) # {}
        /\ DOMAIN Get(mask[b].delta_time) # {}

\* fileID = h5py.File(os.path.expanduser(FILENAME), clobber)
WriterOpen(r) ==
    /\ At(r, "w_open")
    /\ LET mode == ClobberMode(Get(wargs[r]).CLOBBER)
           res == H5Open(outfile, mode)
       IN  IF res.ok
           THEN /\ outfile' = res.file
                /\ opens' = Append(opens, [rank |-> r, mode |-> mode])
                /\ Goto(r, "w_body")
           ELSE /\ Raise(r, "OSError: file exists")
                /\ UNCHANGED <<outfile, opens>>
    /\ UNCHANGED <<push, input, HEM, gtx, mpoly_obj, epsg, bcasts,
                   ind, distributed_map, associated_map, IS2_atl03_mask, sent,
                   arrived, wargs>>

\* the datasets of every beam with their scales, then the attributes of
\* the file: the extents, and the dates of tmn and tmx, which no calendar
\* has while they are infinite (no beam in the record)
WriterBody(r) ==
    /\ At(r, "w_body")
    /\ LET mask == Get(wargs[r]).IS2_atl03_mask
           written == [outfile EXCEPT
                          !.data = Datasets(mask),
                          !.dims = Scales(mask),
                          !.input_files =
                              Some(input_files(Get(wargs[r]).INPUT))]
       IN  IF ~RangesDefined(mask)
           THEN /\ outfile' = written
                /\ Raise(r, "ValueError: zero-size array")
           ELSE /\ outfile' = [written EXCEPT !.attrs =
                       Some(Ranges(mask, WriterBeams(mask), 1, NoRanges))]
                /\ IF DOMAIN mask = {}
                   THEN Raise(r, "OverflowError: date")
                   ELSE Goto(r, "w_close")
    /\ UNCHANGED <<push, input, HEM, gtx, mpoly_obj, epsg, bcasts,
                   ind, distributed_map, associated_map, IS2_atl03_mask, sent,
                   arrived, wargs, opens>>

\* fileID.close(), and the return to the caller
WriterClose(r) ==
    /\ At(r, "w_close")
    /\ outfile' = [outfile EXCEPT !.closed = TRUE]
    /\ Goto(r, "chmod")
    /\ UNCHANGED <<push, input, HEM, gtx, mpoly_obj, epsg, bcasts,
                   ind, distributed_map, associated_map, IS2_atl03_mask, sent,
                   arrived, wargs, opens>>

(***************************************************************************)
(* The strip uploader (DEM/scp_pgc_dem_strips.py).                         *)
(*                                                                         *)
(* A remote path is held as the list of its parts between slashes, which   *)
(* is what remote_dir.split('/') returns: '/r/2018' is <<"", "r", "2018">>,*)
(* 'r' is <<"r">>, '' is <<"">> and '/' is <<"", "">>.  The remote host is *)
(* the set of its directories and the map of its files, each named by the  *)
(* list of names from the root.                                            *)
(***************************************************************************)
\* largest --retry
MaxRetry == 2

\* the directory a relative path is resolved in by the SFTP server
Home == <<"home">>

\* the local strip files and the year in their names
Strips == {"a", "b", "c"}
YY == [a |-> "2018", b |-> "2018", c |-> "2019"]

\* the default permission mode of the command line
MODE == "0o775"

\* def even(i): return 2*int(i//2)
even(i) == 2 * (i \div 2)

\* posixpath.join(a, s) for a name s
posixpath_join(a, s) ==
    IF a[Len(a)] = "" THEN [a EXCEPT ![Len(a)] = s] ELSE Append(a, s)

\* the names from the root of the directory or file a path names
Resolve(p) ==
    LET names == SelectSeq(p, LAMBDA s : s # "")
    IN  IF Len(p) >= 2 /\ p[1] = "" THEN names ELSE Home \o names

\* the entries of directory d of host fs
Children(fs, d) ==
    {x \in fs.dirs \cup DOMAIN fs.files :
        Len(x) = Len(d) + 1 /\ SubSeq(x, 1, Len(d)) = d}

\* client_ftp.listdir(p), for a directory that is there
listdir(fs, p) == {x[Len(x)] : x \in Children(fs, Resolve(p))}

\* client_ftp.mkdir(p, MODE)
mkdir(fs, p) == [fs EXCEPT !.dirs = @ \cup {Resolve(p)}]

\* the loop of remote_makedirs from part k of dirs on: the host it leaves,
\* the directories it made, in order, and the exception that ended it
RECURSIVE makedirs_loop(_, _, _, _, _)
makedirs_loop(fs, dirs, k, remote_path, list) ==
    IF k > Len(dirs) THEN [remote |-> fs, made |-> << >>, err |-> ""]
    ELSE IF dirs[k] = "" THEN makedirs_loop(fs, dirs, k + 1, remote_path, list)
    ELSE IF Resolve(remote_path) \notin fs.dirs
    THEN [remote |-> fs, made |-> << >>, err |-> "IOError: listdir"]
    ELSE LET s == dirs[k]
             p == posixpath_join(remote_path, s)
             create == s \notin listdir(fs, remote_path) /\ ~list
             rest == makedirs_loop(IF create THEN mkdir(fs, p) ELSE fs,
                                   dirs, k + 1, p, list)
         IN  [rest EXCEPT !.made =
                  (IF create THEN <<Resolve(p)>> ELSE << >>) \o @]

\* variant of remote_makedirs: LIST is not looked at
remote_makedirs_always(fs, remote_dir, list) ==
    makedirs_loop(fs, remote_dir, 1,
                  IF remote_dir[1] # "" THEN <<remote_dir[1]>> ELSE <<"", "">>,
                  FALSE)

\* remote_makedirs(client_ftp, remote_dir, LIST)
remote_makedirs(fs, remote_dir, list) ==
    makedirs_loop(fs, remote_dir, 1,
                  IF remote_dir[1] # "" THEN <<remote_dir[1]>> ELSE <<"", "">>,
                  list)

\* the strip the loop of scp_pgc_dem_strips is at
Strip == file_list[fi]

\* remote_path = os.path.join(REMOTE, SUBDIRECTORY)
remote_dir == posixpath_join(REMOTE, YY[Strip])

\* remote_file = posixpath.join(remote_dir, transfer_file)
remote_file == Resolve(posixpath_join(remote_dir, Strip))

\* TEST of scp_push_file: the strip is not in the remote directory, or the
\* local copy is newer by the even second
TEST ==
    IF Strip \in listdir(remote, remote_dir)
    THEN even(local[Strip].mtime) > even(remote.files[remote_file].mtime)
    ELSE TRUE

\* while (retry_counter < RETRY)
may_retry == retry_counter < RETRY

\* the loop goes on with the next strip, or ends
NextStrip ==
    /\ fi' = fi + 1
    /\ at' = IF fi < Len(file_list) THEN "makedirs" ELSE "done"
    /\ failure' = failure

Fail(e) ==
    /\ at' = "error"
    /\ failure' = e
    /\ fi' = fi

\* remote_makedirs(client_ftp, remote_path, LIST=LIST, MODE=MODE)
Makedirs ==
    /\ at = "makedirs"
    /\ LET out == remote_makedirs(remote, remote_dir, LIST)
       IN  /\ remote' = out.remote
           /\ ops' = ops \o [i \in DOMAIN out.made |->
                               [op |-> "mkdir", path |-> out.made[i],
                                strip |-> fi, outcome |-> ""]]
           /\ IF out.err # "" THEN Fail(out.err)
              ELSE /\ at' = "push"
                   /\ fi' = fi
                   /\ failure' = failure
    /\ UNCHANGED <<job, options, retry_counter>>

\* scp_push_file up to its call of retry_scp_push
PushFile ==
    /\ at = "push"
    /\ IF Resolve(remote_dir) \notin remote.dirs
       THEN Fail("IOError: listdir") /\ retry_counter' = retry_counter
       ELSE IF (TEST \/ clobber) /\ ~LIST
       THEN /\ at' = "put"
            /\ retry_counter' = 0
            /\ fi' = fi
            /\ failure' = failure
       ELSE NextStrip /\ retry_counter' = retry_counter
    /\ UNCHANGED <<job, options, remote, ops>>

\* the file s.put leaves on the host
Uploaded(length) ==
    [remote EXCEPT !.files =
        Extend(@, remote_file, [size |-> length, mtime |-> local[Strip].mtime,
                                mode |-> "umask"])]

\* one pass of the while loop of retry_scp_push: the put raises, or it
\* returns and the remote length is or is not the local one
Put ==
    /\ at = "put"
    /\ may_retry
    /\ \E outcome \in {"raises", "short", "whole"} :
          /\ ops' = Append(ops, [op |-> "put", path |-> remote_file,
                                 strip |-> fi, outcome |-> outcome])
          /\ remote' = IF outcome = "raises" THEN remote
                       ELSE IF outcome = "short" THEN Uploaded(0)
                       ELSE Uploaded(local[Strip].size)
          /\ IF outcome = "whole"
             THEN at' = "chmod" /\ retry_counter' = retry_counter
             ELSE at' = at /\ retry_counter' = retry_counter + 1
    /\ UNCHANGED <<job, options, fi, failure>>

\* the end of retry_scp_push once the loop is left by its condition
EndOfRetries ==
    /\ at = "put"
    /\ ~may_retry
    /\ IF retry_counter = RETRY
       THEN Fail("TimeoutError: Maximum number of retries reached")
       ELSE at' = "chmod" /\ fi' = fi /\ failure' = failure
    /\ UNCHANGED <<job, options, remote, retry_counter, ops>>

\* client_ftp.chmod(remote_file, MODE)
ChmodRemote ==
    /\ at = "chmod"
    /\ IF remote_file \notin DOMAIN remote.files
       THEN /\ Fail("IOError: chmod")
            /\ UNCHANGED <<remote, ops>>
       ELSE /\ remote' = [remote EXCEPT !.files[remote_file].mode = MODE]
            /\ ops' = Append(ops, [op |-> "chmod", path |-> remote_file,
                                   strip |-> fi, outcome |-> ""])
            /\ NextStrip
    /\ UNCHANGED <<job, options, retry_counter>>

\* the uploader is not run
NoPush ==
    /\ REMOTE = <<"">>
    /\ LIST = FALSE
    /\ clobber = FALSE
    /\ RETRY = 0
    /\ local = << >>
    /\ file_list = << >>
    /\ remote0 = [dirs |-> {}, files |-> << >>]
    /\ remote = remote0
    /\ fi = 1
    /\ at = "done"
    /\ failure = ""
    /\ retry_counter = 0
    /\ ops = << >>

(***************************************************************************)
(* The job: every rank runs main on the same input.                        *)
(***************************************************************************)
\* the directory and the tokens every rank takes from the name of the input
\* before it does anything else
Parsed ==
    /\ DIRECTORY = Dirname(FILE)
    /\ found = findall(FILE)

\* the photon positions of a beam
Tracks == UNION {[0 .. (n - 1) -> Cells] : n \in 0 .. MaxN}

\* the job before any rank has run, whatever each rank finds in the input
Start ==
    /\ bound \in SUBSET UnboundNames
    /\ readable \in BOOLEAN
    /\ size \in 1 .. MaxW
    /\ beams \in BeamLists
    /\ XY \in [Range(beams) -> Tracks]
    /\ n_pe = [b \in Range(beams) |-> Cardinality(DOMAIN XY[b])]
    /\ HEM = [r \in Ranks |-> None]
    /\ pc = [r \in Ranks |-> "start"]
    /\ err = [r \in Ranks |-> ""]
    /\ gtx = [r \in Ranks |-> 0]
    /\ mpoly_obj = [r \in Ranks |-> None]
    /\ epsg = [r \in Ranks |-> None]
    /\ bcasts = 0
    /\ ind = [r \in Ranks |-> None]
    /\ distributed_map = [r \in Ranks |-> None]
    /\ associated_map = [r \in Ranks |-> None]
    /\ IS2_atl03_mask = [r \in Ranks |-> << >>]
    /\ sent = [r \in Ranks |-> << >>]
    /\ arrived = [r \in Ranks |-> 0]
    /\ wargs = [r \in Ranks |-> None]
    /\ outfile = NoFile
    /\ opens = << >>

\* every rank finds the same input file
Init ==
    /\ Start
    /\ NoPush
    /\ FILE = InputFile
    /\ Parsed
    /\ h_ph = [r \in Ranks |-> n_pe]

\* the ranks a job may have
RankIds == 0 .. (MaxW - 1)

\* the next step of rank r in main
Step(r) ==
    \/ ReadInput(r)
    \/ BcastMpoly(r)
    \/ BcastEpsg(r)
    \/ Evaluate(r)
    \/ AllreduceSend(r)
    \/ AllreduceRecv(r)
    \/ BarrierArrive(r)
    \/ BarrierLeave(r)
    \/ Assemble(r)
    \/ WriteTest(r)
    \/ WriterOpen(r)
    \/ WriterBody(r)
    \/ WriterClose(r)
    \/ Chmod(r)
    \/ Close(r)

Next == \E r \in RankIds : Step(r)

Spec == Init /\ [][Next]_vars

\* every rank is a process of its own: a rank that can take its next step
\* (a statement to run, a collective that every rank has entered) takes it
FairSpec == Spec /\ \A r \in RankIds : WF_vars(Step(r))

\* a rank may find fewer photons in a beam than another rank does
InitSkew ==
    /\ Start
    /\ NoPush
    /\ FILE = InputFile
    /\ Parsed
    /\ h_ph \in [Ranks -> [Range(beams) -> 0 .. MaxN]]
    /\ \A r \in Ranks : \A b \in Range(beams) : h_ph[r][b] <= n_pe[b]

SpecSkew == InitSkew /\ [][Next]_vars

\* jobs on any of the file names, for a beam of one photon inside a polygon
\* and with the unbound names resolved, so that the output is written
InitNames ==
    /\ Start
    /\ NoPush
    /\ FILE \in FileNames
    /\ Parsed
    /\ bound = UnboundNames
    /\ readable
    /\ beams = <<"gt1l">>
    /\ XY = [b \in {"gt1l"} |-> [i \in {0} |-> "A"]]
    /\ h_ph = [r \in Ranks |-> n_pe]

SpecNames == InitNames /\ [][Next]_vars

(***************************************************************************)
(* HDF5_ATL03_mask_write called on its own, with any overwrite policy, on  *)
(* an output path that holds a file or not.                                *)
(***************************************************************************)
\* the values a caller passes as CLOBBER
ClobberValues == {"Y", "y", "N", "n"}

\* the writer called on a record of the beams: the mask and geolocation of
\* the photons, and a delta_time array of any length
InitWriter ==
    /\ NoPush
    /\ bound = {}
    /\ readable = TRUE
    /\ FILE = InputFile
    /\ Parsed
    /\ size = 1
    /\ HEM = [r \in Ranks |-> Some("S")]
    /\ beams \in BeamLists
    /\ XY \in [Range(beams) -> Tracks]
    /\ n_pe = [b \in Range(beams) |-> Cardinality(DOMAIN XY[b])]
    /\ h_ph = [r \in Ranks |-> n_pe]
    /\ \E times \in [Range(beams) -> 0 .. MaxN], c \in ClobberValues :
          /\ IS2_atl03_mask = [r \in Ranks |->
                [b \in Range(beams) |->
                    [delta_time |-> Some([i \in 0 .. (times[b] - 1) |-> i]),
                     latitude |-> Some(latitude(b)),
                     longitude |-> Some(longitude(b)),
                     ice_gz |-> Some([i \in DOMAIN XY[b] |->
                                         \E k \in 1 .. Len(Shapefile) :
                                             XY[b][i] \in Shapefile[k]])]]]
          /\ wargs = [r \in Ranks |->
                Some([IS2_atl03_mask |-> IS2_atl03_mask[r], CLOBBER |-> c,
                      INPUT |-> Str(Basename(FILE)),
                      FILENAME |-> PathJoin(DIRECTORY,
                                      file_format(found[1]))])]
    /\ pc = [r \in Ranks |-> "w_open"]
    /\ err = [r \in Ranks |-> ""]
    /\ gtx = [r \in Ranks |-> Len(beams)]
    /\ mpoly_obj = [r \in Ranks |-> Some(Shapefile)]
    /\ epsg = [r \in Ranks |-> Some("epsg")]
    /\ bcasts = 2
    /\ ind = [r \in Ranks |-> None]
    /\ distributed_map = [r \in Ranks |-> None]
    /\ associated_map = [r \in Ranks |-> None]
    /\ sent = [r \in Ranks |-> << >>]
    /\ arrived = [r \in Ranks |-> 0]
    /\ outfile \in {NoFile, OldFile}
    /\ opens = << >>

NextWriter ==
    \E r \in RankIds :
        \/ WriterOpen(r)
        \/ WriterBody(r)
        \/ WriterClose(r)

SpecWriter == InitWriter /\ [][NextWriter]_vars

(***************************************************************************)
(* The uploader run on its own.                                            *)
(***************************************************************************)
\* no job on the mask is run
NoJob ==
    /\ bound = {}
    /\ readable = TRUE
    /\ FILE = InputFile
    /\ Parsed
    /\ size = 1
    /\ beams = << >>
    /\ XY = << >>
    /\ n_pe = << >>
    /\ h_ph = [r \in Ranks |-> n_pe]
    /\ HEM = [r \in Ranks |-> None]
    /\ pc = [r \in Ranks |-> "done"]
    /\ err = [r \in Ranks |-> ""]
    /\ gtx = [r \in Ranks |-> 0]
    /\ mpoly_obj = [r \in Ranks |-> None]
    /\ epsg = [r \in Ranks |-> None]
    /\ bcasts = 0
    /\ ind = [r \in Ranks |-> None]
    /\ distributed_map = [r \in Ranks |-> None]
    /\ associated_map = [r \in Ranks |-> None]
    /\ IS2_atl03_mask = [r \in Ranks |-> << >>]
    /\ sent = [r \in Ranks |-> << >>]
    /\ arrived = [r \in Ranks |-> 0]
    /\ wargs = [r \in Ranks |-> None]
    /\ outfile = NoFile
    /\ opens = << >>

\* --remote: none, absolute with or without a closing slash, relative
Remotes == {<<"">>, <<"", "r">>, <<"", "r", "">>, <<"r">>}

\* the sorted lists of strips of the local directory
FileLists == {<< >>, <<"a">>, <<"a", "b">>, <<"a", "c">>}

\* remote hosts before the run: the home directory alone, the working
\* directories /r and r in it, a directory of the year in them, and strip a
\* there, older than, as old as or newer than the local copy
Hosts ==
    LET base == {<< >>, Home}
        work == base \cup {<<"r">>, Home \o <<"r">>}
        year == work \cup {<<"r", "2018">>, Home \o <<"r", "2018">>,
                           Home \o <<"2018">>}
        nest == work \cup {Home \o <<"r", "r">>}
        File(t) == [p \in {<<"r", "2018", "a">>} |->
                       [size |-> 1, mtime |-> t, mode |-> "old"]]
    IN  {[dirs |-> d, files |-> << >>] : d \in {base, work, year, nest}}
            \cup {[dirs |-> year, files |-> File(t)] : t \in {2, 3, 6}}

InitPush ==
    /\ NoJob
    /\ REMOTE \in Remotes
    /\ LIST \in BOOLEAN
    /\ clobber \in BOOLEAN
    /\ RETRY \in (-1) .. MaxRetry
    /\ file_list \in FileLists
    /\ \E t \in {3, 4} : local = [f \in Strips |-> [size |-> 1, mtime |-> t]]
    /\ remote0 \in Hosts
    /\ remote = remote0
    /\ fi = 1
    /\ at = IF file_list = << >> THEN "done" ELSE "makedirs"
    /\ failure = ""
    /\ retry_counter = 0
    /\ ops = << >>

NextPush ==
    \/ Makedirs
    \/ PushFile
    \/ Put
    \/ EndOfRetries
    \/ ChmodRemote

SpecPush == InitPush /\ [][NextPush]_vars

(***************************************************************************)
(* Properties.                                                             *)
(***************************************************************************)
\* photon i of beam b lies in or on a polygon of the shapefile
InZone(b, i) == \E k \in 1 .. Len(Shapefile) : XY[b][i] \in Shapefile[k]

\* the grounding-zone mask of beam b
ZoneMask(b) == [i \in 0 .. (n_pe[b] - 1) |-> InZone(b, i)]

\* the positions at which a rank holds in associated_map what the
\* Allreduce of its current beam returned
ReducedLabels ==
    {"barrier1", "barrier1_wait", "assemble", "barrier2", "barrier2_wait",
     "beam", "close", "w_open", "w_body", "w_close", "chmod", "done"}

HoldsReduced(r) ==
    /\ gtx[r] >= 1
    /\ \/ pc[r] \in ReducedLabels
       \/ pc[r] = "error" /\ err[r] \notin {"NameError: MultiPoint",
                                            "MPI_ERR_TRUNCATE"}

\* rank r has stored the mask of beam b in its output record
Stored(r, b) ==
    /\ b \in DOMAIN IS2_atl03_mask[r]
    /\ IS2_atl03_mask[r][b].ice_gz # None

\* the element-wise OR of what the ranks passed to the k-th Allreduce
OrOfSent(k, n) ==
    [i \in 0 .. (n - 1) |->
        \E s \in Ranks : k <= Len(sent[s]) /\ i \in DOMAIN sent[s][k]
                         /\ sent[s][k][i]]

Ended(r) == pc[r] \in {"done", "error"}

WriterLabels == {"w_open", "w_body", "w_close", "chmod"}

\* C1: the index arrays the ranks compute for a beam of N photons are
\* pairwise disjoint, hold no index twice, and together are exactly 0..N-1;
\* rank r owns exactly the indices i < N with i % W = r.
C1_PartitionCoverage ==
    \A k \in 1 .. Len(beams) :
        LET R == {r \in Ranks : ind[r] # None /\ gtx[r] = k}
            N == n_pe[beams[k]]
            Own(r) == Range(Get(ind[r]))
        IN  /\ \A r \in R : /\ Own(r) = {i \in 0 .. (N - 1) : i % size = r}
                            /\ Cardinality(Own(r)) =
                                   Cardinality(DOMAIN Get(ind[r]))
            /\ \A r, s \in R : r # s => Own(r) \cap Own(s) = {}
            /\ R = Ranks => UNION {Own(r) : r \in R} = 0 .. (N - 1)

\* C1 witness: two ranks have both partitioned a beam of two photons
C1_Witness ==
    /\ size = 2
    /\ \E k \in 1 .. Len(beams) :
          /\ n_pe[beams[k]] = 2
          /\ \A r \in Ranks : ind[r] # None /\ gtx[r] = k

\* C2, as stated: a rank whose run has ended holds, for every beam of the
\* input, the mask that is true exactly at the photons inside a polygon.
C2_EveryRankEndsWithTheMask ==
    \A r \in Ranks :
        Ended(r) =>
            \A k \in 1 .. Len(beams) :
                /\ Stored(r, beams[k])
                /\ Get(IS2_atl03_mask[r][beams[k]].ice_gz) = ZoneMask(beams[k])

\* C3: what Allreduce returned to a rank is, element by element, the OR of
\* the buffers all ranks passed to it, whichever rank holds which true
\* entry, and it is the same array on every rank.
C3_AllreduceIsOr ==
    /\ \A r \in Ranks :
          HoldsReduced(r) =>
              Get(associated_map[r]) = OrOfSent(gtx[r], n_pe[beams[gtx[r]]])
    /\ \A r, s \in Ranks :
          HoldsReduced(r) /\ HoldsReduced(s) /\ gtx[r] = gtx[s]
              => associated_map[r] = associated_map[s]

\* C3 witness: two ranks hold the reduced mask of a beam to which each of
\* them contributed a true entry of its own
C3_Witness ==
    /\ size = 2
    /\ HoldsReduced(0) /\ HoldsReduced(1) /\ gtx[0] = gtx[1]
    /\ LET k == gtx[0]
       IN  /\ Len(sent[0]) >= k /\ Len(sent[1]) >= k
           /\ AnyTrue(sent[0][k]) /\ AnyTrue(sent[1][k])
           /\ sent[0][k] # sent[1][k]

\* C4: a rank holds or has stored the reduced mask of a beam only when
\* every rank has evaluated that beam and passed its partial mask to the
\* Allreduce.
C4_NoMaskBeforeAllContributed ==
    \A r \in Ranks : \A k \in 1 .. Len(beams) :
        (HoldsReduced(r) /\ gtx[r] = k) \/ Stored(r, beams[k])
            => \A s \in Ranks : Len(sent[s]) >= k

\* C4 witness: one rank has the reduced mask while another, which has
\* contributed, has not yet returned from the Allreduce
C4_Witness ==
    \E r, s \in Ranks :
        /\ pc[r] = "barrier1" /\ pc[s] = "allreduce_wait"
        /\ gtx[r] = gtx[s]

\* C5: the ranks are in the same beam, or one beam apart with the rank
\* behind through the reduction of its beam and at the beam's last barrier
\* (waiting in it, or past it and about to start the next beam).
C5_BeamsInLockStep ==
    \A r, s \in Ranks :
        gtx[s] >= 1 /\ gtx[r] > gtx[s]
            => /\ gtx[r] = gtx[s] + 1
               /\ pc[s] \in {"barrier2_wait", "beam"}
               /\ Len(sent[s]) = gtx[s]
               /\ Stored(s, beams[gtx[s]])

\* C5 witness: a rank has started the next beam while another is still at
\* the last barrier of the beam before
C5_Witness ==
    \E r, s \in Ranks :
        gtx[s] >= 1 /\ gtx[r] = gtx[s] + 1 /\ pc[s] = "barrier2_wait"

\* C6: the output path is opened for writing at most once, by rank 0, and
\* no other rank is ever in the writer.
C6_SingleWriter ==
    /\ Len(opens) <= 1
    /\ \A i \in 1 .. Len(opens) : opens[i].rank = 0
    /\ \A r \in Ranks : pc[r] \in WriterLabels => r = 0

\* C6 witness: a job of two ranks has ended and the output was opened
C6_Witness ==
    /\ size = 2
    /\ Len(opens) = 1
    /\ \A r \in Ranks : pc[r] = "done"

\* C7: rank 0 is in the writer, or has opened the output, only when every
\* rank has been through the Allreduce and both barriers of every beam
\* (returned from the Allreduce and the first barrier, entered the second),
\* and the record passed to the writer holds the reduced mask of every beam.
C7_WriteOnlyWhenReady ==
    (opens # << >> \/ \E r \in Ranks : pc[r] \in WriterLabels) =>
        /\ \A s \in Ranks :
              /\ gtx[s] = Len(beams)
              /\ Len(sent[s]) = Len(beams)
              /\ arrived[s] = 2 * Len(beams)
              /\ \A k \in 1 .. Len(beams) : Stored(s, beams[k])
        /\ LET rec == Get(wargs[0]).IS2_atl03_mask
           IN  /\ DOMAIN rec = Range(beams)
               /\ \A k \in 1 .. Len(beams) :
                     rec[beams[k]].ice_gz =
                         Some(OrOfSent(k, n_pe[beams[k]]))

\* C7 witness: rank 0 of two is writing the record of two beams
C7_Witness ==
    /\ size = 2
    /\ Len(beams) = 2
    /\ pc[0] = "w_body"

\* C8: the step that opens the output truncates or creates the file with
\* mode 'w' exactly when CLOBBER is 'Y' or 'y'; with any other CLOBBER and a
\* file at the path it raises, leaving the file as it was and nothing
\* written; with any other CLOBBER and no file it creates one with 'w-'.
C8_OverwritePolicy ==
    [][\A r \in Ranks :
          (pc[r] = "w_open" /\ pc'[r] # "w_open") =>
              LET over == Get(wargs[r]).CLOBBER \in {"Y", "y"}
              IN  IF ~over /\ outfile.exists
                  THEN /\ pc'[r] = "error"
                       /\ outfile' = outfile
                       /\ opens' = opens
                  ELSE /\ pc'[r] = "w_body"
                       /\ outfile' = NewFile
                       /\ opens' = Append(opens,
                              [rank |-> r,
                               mode |-> IF over THEN "w" ELSE "w-"])]_vars

\* C8 witness: the open failed on an existing file, which is untouched
C8_Witness ==
    /\ pc[0] = "error"
    /\ err[0] = "OSError: file exists"
    /\ outfile = OldFile
    /\ Get(wargs[0]).CLOBBER = "N"

\* no photon of any beam lies in a polygon
NoHit == \A k \in 1 .. Len(beams) : ~AnyTrue(ZoneMask(beams[k]))

\* C9, as stated: when no beam's mask has a true entry, no output file is
\* created and no rank raises an error.
C9_NoOpIsClean ==
    NoHit => /\ outfile = NoFile
             /\ \A r \in Ranks : pc[r] # "error"

\* C10, as stated: when some beam has a photon inside a polygon, rank 0
\* ends its run with the output written, holding every beam, and closed.
C10_WrittenWheneverAnyBeamHits ==
    (Ended(0) /\ ~NoHit) =>
        /\ outfile.exists
        /\ outfile.closed
        /\ \A k \in 1 .. Len(beams) :
              /\ <<beams[k], "subsetting", "ice_gz">> \in DOMAIN outfile.data
              /\ outfile.data[<<beams[k], "subsetting", "ice_gz">>]
                     = ZoneMask(beams[k])

Stuck(r) ==
    \/ pc[r] = "bcast_mpoly" /\ ~BcastReady(r, 1) /\ pc[0] = "error"
    \/ pc[r] = "bcast_epsg" /\ ~BcastReady(r, 2) /\ pc[0] = "error"
    \/ /\ pc[r] = "allreduce_wait"
       /\ \E s \in Ranks : pc[s] = "error" /\ Len(sent[s]) < Len(sent[r])
    \/ /\ pc[r] \in {"barrier1_wait", "barrier2_wait"}
       /\ \E s \in Ranks : pc[s] = "error" /\ arrived[s] < arrived[r]

\* C12, as stated: when an error ends a rank (rank 0 cannot open the
\* shapefile), no other rank is left waiting in a broadcast, an Allreduce or
\* a barrier that the ended rank never enters.
C12_NoRankLeftInACollective ==
    \A r \in Ranks : ~Stuck(r)

\* the writer has created the datasets and attributes of its record
BodyDone(r) == pc[r] \in {"w_close", "chmod"}

\* C13, as stated: once the writer has written its record, the file holds
\* for each beam the arrays passed in, unchanged, at heights/delta_time,
\* heights/latitude, heights/longitude and subsetting/ice_gz, and
\* dimension 0 of the mask is linked to the beam's heights/delta_time.
C13_LayoutRoundTrip ==
    BodyDone(0) =>
        LET rec == Get(wargs[0]).IS2_atl03_mask
            Holds(path, v) ==
                path \in DOMAIN outfile.data /\ outfile.data[path] = Get(v)
        IN  \A b \in DOMAIN rec :
                /\ Holds(<<b, "heights", "delta_time">>, rec[b].delta_time)
                /\ Holds(<<b, "heights", "latitude">>, rec[b].latitude)
                /\ Holds(<<b, "heights", "longitude">>, rec[b].longitude)
                /\ Holds(<<b, "subsetting", "ice_gz">>, rec[b].ice_gz)
                /\ <<b, "subsetting", "ice_gz">> \in DOMAIN outfile.dims
                /\ outfile.dims[<<b, "subsetting", "ice_gz">>]
                       = <<b, "heights", "delta_time">>

\* a dataset of the record differs in shape from the beam's delta_time
Mismatch(rec) ==
    \E b \in DOMAIN rec :
        LET shape == DOMAIN Get(rec[b].delta_time)
        IN  \/ DOMAIN Get(rec[b].latitude) # shape
            \/ DOMAIN Get(rec[b].longitude) # shape
            \/ DOMAIN Get(rec[b].ice_gz) # shape

\* C14, as stated: called on a record in which a dataset and the
\* delta_time it is attached to differ in shape, the writer fails and leaves
\* no file with datasets and scales at the output path.
C14_ShapeMismatchIsFatal ==
    (wargs[0] # None /\ Mismatch(Get(wargs[0]).IS2_atl03_mask)) =>
        /\ ~BodyDone(0)
        /\ outfile.data = << >>
        /\ outfile.dims = << >>

\* C15, as stated: the index array of rank r for a beam of N photons is
\* r, r+W, r+2W, ... up to the last such value below N; when N <= r it is
\* empty, and the rank still passes an all-false mask to the Allreduce and
\* goes through the beam without raising an error.
C15_EmptyPartitionTakesPart ==
    \A r \in Ranks :
        (gtx[r] >= 1 /\ ind[r] # None) =>
            LET k == gtx[r]
                N == n_pe[beams[k]]
                a == Get(ind[r])
            IN  /\ \A j \in DOMAIN a : a[j] = r + j * size /\ a[j] < N
                /\ \A i \in 0 .. (N - 1) : i % size = r => i \in Range(a)
                /\ N <= r =>
                      /\ DOMAIN a = {}
                      /\ k <= Len(sent[r]) => sent[r][k] = Zeros(N)
                      /\ err[r] \notin {"NameError: MultiPoint",
                                        "MPI_ERR_TRUNCATE"}

\* C16: the buffer a rank builds for a beam, and the buffer it passes to
\* the Allreduce, has one entry per photon of the whole beam, and is true
\* only at indices of the rank's own partition (i % W = rank), and there
\* only for photons inside a polygon: every other entry is as it started,
\* false.
C16_PartialMaskInvariant ==
    \A r \in Ranks :
        LET Partial(map, b) ==
                /\ DOMAIN map = 0 .. (n_pe[b] - 1)
                /\ \A i \in DOMAIN map :
                      map[i] => i % size = r /\ InZone(b, i)
        IN  /\ distributed_map[r] # None =>
                  Partial(Get(distributed_map[r]), beams[gtx[r]])
            /\ \A k \in 1 .. Len(sent[r]) : Partial(sent[r][k], beams[k])

\* C16 witness: rank 1 of two has passed a buffer of two entries, true at
\* its own photon and false at rank 0's photon, which is inside a polygon too
C16_Witness ==
    /\ size = 2
    /\ \E k \in 1 .. Len(sent[1]) :
          /\ DOMAIN sent[1][k] = {0, 1}
          /\ sent[1][k][1] /\ ~sent[1][k][0]
          /\ InZone(beams[k], 0)

ReadyToWrite ==
    /\ Len(beams) >= 1
    /\ gtx[0] = Len(beams)
    /\ \A k \in 1 .. Len(beams) : Stored(0, beams[k])
    /\ pc[0] \notin {"barrier2", "barrier2_wait"}
    /\ associated_map[0] # None /\ AnyTrue(Get(associated_map[0]))

AllValues(rec, field) ==
    UNION {Range(Get(rec[b][field])) : b \in DOMAIN rec}

\* o is the least (greatest) value of S; of no value at all it is the
\* infinity the range started at
IsMin(o, S) ==
    IF S = {} THEN o = None
    ELSE o # None /\ Get(o) \in S /\ \A y \in S : Get(o) <= y
IsMax(o, S) ==
    IF S = {} THEN o = None
    ELSE o # None /\ Get(o) \in S /\ \A y \in S : Get(o) >= y

\* C19: the extents the writer puts in the file's attributes are the
\* minimum and maximum of latitude, of longitude and of delta_time over the
\* points of all the beams of the record.
C19_GlobalExtents ==
    outfile.attrs # None =>
        LET rec == Get(wargs[0]).IS2_atl03_mask
            a == Get(outfile.attrs)
        IN  /\ IsMin(a.ltmn, AllValues(rec, "latitude"))
            /\ IsMax(a.ltmx, AllValues(rec, "latitude"))
            /\ IsMin(a.lnmn, AllValues(rec, "longitude"))
            /\ IsMax(a.lnmx, AllValues(rec, "longitude"))
            /\ IsMin(a.tmn, AllValues(rec, "delta_time"))
            /\ IsMax(a.tmx, AllValues(rec, "delta_time"))

\* C19 witness: the extents of a record of two beams are written, the
\* least longitude and the last time being those of the first beam only
C19_Witness ==
    /\ pc[0] = "w_close"
    /\ outfile.attrs # None
    /\ Len(beams) = 2
    /\ LET rec == Get(wargs[0]).IS2_atl03_mask
           a == Get(outfile.attrs)
       IN  /\ Get(a.lnmn) \notin Range(Get(rec[beams[2]].longitude))
           /\ Get(a.tmx) \notin Range(Get(rec[beams[2]].delta_time))

\* C20: the delta_time, latitude and longitude a rank stores in its record
\* for a beam are the arrays of the input file, entry for entry, and the
\* mask stored with them has one entry per photon of the beam.
C20_RecordPreservesPoints ==
    \A r \in Ranks : \A b \in DOMAIN IS2_atl03_mask[r] :
        Stored(r, b) =>
            LET rec == IS2_atl03_mask[r][b]
            IN  /\ rec.delta_time = Some(delta_time(b))
                /\ rec.latitude = Some(latitude(b))
                /\ rec.longitude = Some(longitude(b))
                /\ DOMAIN Get(rec.ice_gz) = 0 .. (n_pe[b] - 1)
                /\ DOMAIN Get(rec.ice_gz) = DOMAIN Get(rec.delta_time)

\* C20 witness: rank 1 of two, which evaluated one photon of a beam of two,
\* has stored the beam, whose latitudes are not its longitudes
C20_Witness ==
    /\ size = 2
    /\ \E b \in DOMAIN IS2_atl03_mask[1] :
          /\ Stored(1, b)
          /\ n_pe[b] = 2
          /\ latitude(b) # longitude(b)

\* the tokens of the input file's name, for a name the pattern matches
Tokens == found[1]

C22_OutputIsNotTheInput ==
    \A r \in Ranks :
        wargs[r] # None =>
            LET out == Get(wargs[r]).FILENAME
                head == Tokens.PRD \o <<"_">> \o GROUNDING_ZONE_MASK \o <<"_">>
                       \o Tokens.YY
                dir == PathJoin(Dirname(FILE), << >>)
                from == Len(dir) + 1
            IN  /\ out # FILE
                /\ SubSeq(out, 1, Len(dir)) = dir
                /\ SubSeq(out, from, from + Len(head) - 1) = head
                /\ Get(wargs[r]).CLOBBER = "Y"

\* C22 witness: the writer was called for an input in a directory whose name
\* is the product, the date and the rest with nothing before or after them
C22_Witness ==
    /\ wargs[0] # None
    /\ FILE = InputFile
    /\ Basename(FILE) = file_format_plain(Tokens)
    /\ pc[0] = "w_body"

\* C23, as stated: on an input with no beam group, the polygons loaded, no
\* rank raises an error and no output file is created.
C23_EmptyInputIsClean ==
    (beams = << >> /\ readable) =>
        /\ \A r \in Ranks : Ended(r) => pc[r] = "done" /\ err[r] = ""
        /\ outfile = NoFile

\* the name of the input is matched and its granule is of no hemisphere
OtherGranule ==
    /\ found # << >>
    /\ set_hemisphere(Tokens.GRAN) = None

\* C24: the hemisphere is 'S' for granules 10, 11, 12 and 'N' for 03, 04,
\* 05; for any other granule no rank gets a hemisphere: each rank that has
\* parsed the name has ended with the same UnboundLocalError before any
\* broadcast, reduction or barrier, and no rank waits in a collective.
C24_HemisphereOrFailEverywhere ==
    /\ \A r \in Ranks :
          HEM[r] # None =>
              /\ Get(HEM[r]) = "S" <=>
                     Tokens.GRAN \in {<<"1", "0">>, <<"1", "1">>, <<"1", "2">>}
              /\ Get(HEM[r]) = "N" <=>
                     Tokens.GRAN \in {<<"0", "3">>, <<"0", "4">>, <<"0", "5">>}
    /\ OtherGranule =>
          \A r \in Ranks :
              /\ HEM[r] = None
              /\ pc[r] \in {"start", "error"}
              /\ pc[r] = "error" =>
                     err[r] = "UnboundLocalError: projection_flag"
              /\ mpoly_obj[r] = None
              /\ sent[r] = << >>
              /\ arrived[r] = 0
              /\ ~Stuck(r)

\* C24 witness: both ranks of a job on a granule 01 have ended in the call
C24_Witness ==
    /\ size = 2
    /\ OtherGranule
    /\ \A r \in Ranks : pc[r] = "error"

\* the put attempts logged for the k-th strip, in order
Puts(k) == SelectSeq(ops, LAMBDA o : o.op = "put" /\ o.strip = k)

\* a put for the k-th strip returned and left a file of the local length
PutWhole(k) == \E i \in DOMAIN Puts(k) : Puts(k)[i].outcome = "whole"

\* the mode of the k-th strip's remote file was changed
ChmodDone(k) == \E i \in DOMAIN ops : ops[i].op = "chmod" /\ ops[i].strip = k

TimedOut ==
    at = "error" /\ failure = "TimeoutError: Maximum number of retries reached"

\* C25, as stated: retry_scp_push makes no put beyond the RETRY-th; it
\* returns (the uploader goes on to chmod) only after a put that completed
\* with the remote length equal to the local one, which is then the last
\* put; in every other case, RETRY = 0 included, it raises TimeoutError
\* after exactly RETRY puts.
C25_BoundedRetry ==
    LET n == Len(Puts(fi))
    IN  /\ n > 0 => n <= RETRY
        /\ at = "chmod" => /\ PutWhole(fi)
                           /\ Puts(fi)[n].outcome = "whole"
        /\ PutWhole(fi) => at = "chmod"
        /\ TimedOut => ~PutWhole(fi) /\ n = RETRY
        /\ (at = "put" /\ ~may_retry) => retry_counter = RETRY /\ n = RETRY

\* the path of the k-th strip's remote file
RemoteFile(k) ==
    Resolve(posixpath_join(posixpath_join(REMOTE, YY[file_list[k]]),
                           file_list[k]))

\* the k-th strip is to be transferred: not a listing, and the strip was
\* not on the host, or is newer there by the even second, or --clobber
Wanted(k) ==
    /\ ~LIST
    /\ \/ RemoteFile(k) \notin DOMAIN remote0.files
       \/ even(local[file_list[k]].mtime)
              > even(remote0.files[RemoteFile(k)].mtime)
       \/ clobber

\* C26, as stated: a strip is handed to retry_scp_push exactly when LIST is
\* false and the strip is absent from the remote directory, or newer by
\* the even second, or CLOBBER is set; the mode of the remote file is
\* changed only after a put of that strip that completed with the remote
\* length equal to the local one.
C26_PushDecision ==
    \A k \in DOMAIN file_list :
        /\ (k = fi /\ at \in {"put", "chmod"}) => Wanted(k)
        /\ (Puts(k) # << >> \/ ChmodDone(k)) => Wanted(k)
        /\ (k < fi /\ Wanted(k)) => ChmodDone(k)
        /\ ChmodDone(k) =>
              /\ PutWhole(k)
              /\ remote.files[RemoteFile(k)].mode = MODE

\* C27: with LIST set no mkdir, no put and no chmod is made on the host,
\* and the host is as it was before the run.
C27_ListLeavesTheHostUnchanged ==
    LIST => ops = << >> /\ remote = remote0

\* C27 witness: a listing of two strips has ended; the first is not on the
\* host and would be transferred, the second has no directory of its year
C27_Witness ==
    /\ LIST
    /\ Len(file_list) = 2
    /\ fi = 2
    /\ RemoteFile(1) \notin DOMAIN remote0.files
    /\ at = "error"
    /\ Resolve(posixpath_join(REMOTE, YY[file_list[2]])) \notin remote0.dirs

\* the directories that lead to path p, p included
Prefixes(p) == {SubSeq(p, 1, n) : n \in 0 .. Len(p)}

\* the directory of the year of the k-th strip
RemoteDir(k) == Resolve(posixpath_join(REMOTE, YY[file_list[k]]))

\* C28, as stated: with LIST false remote_makedirs does not fail, makes
\* only directories that lead to remote_dir and were not there, makes none
\* twice, and once it has returned every directory that leads to
\* remote_dir is there, for an absolute and for a relative remote_dir.
C28_MakedirsMakesTheMissingPrefixes ==
    ~LIST =>
        /\ failure # "IOError: listdir"
        /\ \A i \in DOMAIN ops :
              ops[i].op = "mkdir" =>
                  /\ ops[i].path \in Prefixes(RemoteDir(ops[i].strip))
                  /\ ops[i].path \notin remote0.dirs
                  /\ \A j \in DOMAIN ops :
                        (ops[j].op = "mkdir" /\ ops[j].path = ops[i].path)
                            => j = i
        /\ \A k \in DOMAIN file_list :
              (k < fi \/ (k = fi /\ at \in {"push", "put", "chmod"}))
                  => Prefixes(RemoteDir(k)) \subseteq remote.dirs
=============================================================================
